---------------------------- MODULE Spec2Model ----------------------------
(***************************************************************************)
(* A model of the ATSPro backend (src/main.py): the /upload-resume        *)
(* analysis pipeline and the five /ai/* endpoints.                         *)
(*                                                                         *)
(* Python strings are modelled as sequences of characters.  A character    *)
(* is a one-character string; a character outside ASCII is written by its  *)
(* code point ("U+2022" is the bullet, "U+00E9" is e-acute).               *)
(***************************************************************************)
EXTENDS Integers, Sequences, FiniteSets, TLC

VARIABLES
  module_globals, \* the module-level taxonomy tables (main.py lines 28-69)
  hash_seed,      \* the process's string-hash seed: fixes the iteration order of a set
  request,        \* request[r]: the request's inputs, or the idle marker
  pc,             \* pc[r]: where the handler of request r stands
  frame,          \* frame[r]: the handler's bound local variables (name -> value)
  response        \* response[r]: what the framework sends back

vars == <<module_globals, hash_seed, request, pc, frame, response>>

---------------------------------------------------------------------------
(* Characters *)

UPPER ==
  <<"A","B","C","D","E","F","G","H","I","J","K","L","M",
    "N","O","P","Q","R","S","T","U","V","W","X","Y","Z">>

LOWER ==
  <<"a","b","c","d","e","f","g","h","i","j","k","l","m",
    "n","o","p","q","r","s","t","u","v","w","x","y","z">>

DIGITS == {"0","1","2","3","4","5","6","7","8","9"}

\* str.isspace(), and \s of a str pattern, on the characters used here
WHITESPACE == {" ", "\t", "\n", "\f"}

\* the code points above 0x7F used here: the bullet (uncased) and e-acute (lower case)
NON_ASCII == {"U+2022", "U+00E9"}

UpperSet == {UPPER[i] : i \in 1..26}

LowerSet == {LOWER[i] : i \in 1..26}

IsSpace(c) == c \in WHITESPACE

IsUpperChar(c) == c \in UpperSet

IsLowerChar(c) == c \in LowerSet \cup {"U+00E9"}

\* str.lower() on one character
LowerChar(c) ==
  IF c \in UpperSet THEN LOWER[CHOOSE i \in 1..26 : UPPER[i] = c] ELSE c

---------------------------------------------------------------------------
(* String operations of Python, on character sequences *)

\* the sequence s[1], ..., s[n] of a function s on 1..n
Tuple(s, n) == SubSeq(s, 1, n)

Min(a, b) == IF a < b THEN a ELSE b

Max(a, b) == IF a > b THEN a ELSE b

\* str.lower()
Lower(t) == Tuple([i \in 1..Len(t) |-> LowerChar(t[i])], Len(t))

\* p in t
Contains(t, p) ==
  \E i \in 0..(Len(t) - Len(p)) : \A j \in 1..Len(p) : t[i + j] = p[j]

\* t.startswith(p)
StartsWith(t, p) ==
  Len(p) <= Len(t) /\ \A j \in 1..Len(p) : t[j] = p[j]

\* t.endswith(p)
EndsWith(t, p) ==
  Len(p) <= Len(t) /\ \A j \in 1..Len(p) : t[Len(t) - Len(p) + j] = p[j]

\* str.strip()
Strip(t) ==
  IF \A i \in 1..Len(t) : IsSpace(t[i]) THEN <<>>
  ELSE LET lo == CHOOSE i \in 1..Len(t) :
                   ~IsSpace(t[i]) /\ \A k \in 1..(i - 1) : IsSpace(t[k])
           up == CHOOSE d \in 0..(Len(t) - 1) :
                   ~IsSpace(t[Len(t) - d]) /\ \A k \in 0..(d - 1) : IsSpace(t[Len(t) - k])
       IN  SubSeq(t, lo, Len(t) - up)

\* the positions 1, ..., Len(t), in order
Positions(t) == Tuple([i \in 1..Len(t) |-> i], Len(t))

\* the end of the run of non-separator characters that starts at i
RunEnd(t, i, seps) ==
  CHOOSE e \in i..Len(t) :
    /\ e = Len(t) \/ t[e + 1] \in seps
    /\ \A k \in i..e : t[k] \notin seps

\* str.split(): the maximal runs of non-whitespace characters, in order
Split(t) ==
  LET starts == SelectSeq(Positions(t),
                          LAMBDA i : ~IsSpace(t[i]) /\ (i = 1 \/ IsSpace(t[i - 1])))
  IN  Tuple([k \in 1..Len(starts) |->
               SubSeq(t, starts[k], RunEnd(t, starts[k], WHITESPACE))], Len(starts))

\* str.split(sep) for a one-character separator: the pieces between the
\* separators, empty ones kept
SplitOn(t, sep) ==
  LET at == SelectSeq(Positions(t), LAMBDA i : t[i] = sep)
      n  == Len(at)
  IN  Tuple([k \in 1..(n + 1) |->
               SubSeq(t, IF k = 1 THEN 1 ELSE at[k - 1] + 1,
                         IF k = n + 1 THEN Len(t) ELSE at[k] - 1)], n + 1)

RECURSIVE Concat(_)
\* "".join(parts)
Concat(parts) ==
  IF parts = <<>> THEN <<>> ELSE Head(parts) \o Concat(Tail(parts))

RECURSIVE Join(_, _)
\* sep.join(parts)
Join(sep, parts) ==
  IF parts = <<>> THEN <<>>
  ELSE IF Len(parts) = 1 THEN parts[1]
  ELSE parts[1] \o sep \o Join(sep, Tail(parts))

\* the elements of a sequence, as a set
Range(s) == {s[i] : i \in 1..Len(s)}

\* the keys of a dict built from s, in insertion order (each element once, at its
\* first occurrence)
Keys(s) ==
  LET first == SelectSeq(Positions(s), LAMBDA i : \A j \in 1..(i - 1) : s[j] # s[i])
  IN  Tuple([k \in 1..Len(first) |-> s[first[k]]], Len(first))

\* sum(1 for x in s if x in S)
CountIn(s, S) == Cardinality({i \in 1..Len(s) : s[i] \in S})

\* s.count(x)
Count(s, x) == Cardinality({i \in 1..Len(s) : s[i] = x})

---------------------------------------------------------------------------
(* The taxonomy tables, as written in the source *)

STOPWORDS ==
  {
    <<"t","h","e">>, <<"a","n","d">>, <<"w","i","t","h">>, <<"y","o","u","r">>, <<"f","o","r">>,
    <<"a","r","e">>, <<"w","a","s">>, <<"w","e","r","e">>, <<"y","o","u">>, <<"b","u","t">>,
    <<"t","h","i","s">>, <<"t","h","a","t">>, <<"f","r","o","m">>, <<"h","a","v","e">>,
    <<"h","a","s">>, <<"h","a","d">>, <<"h","i","s">>, <<"h","e","r">>, <<"i","t","s">>,
    <<"t","h","e","i","r">>, <<"o","u","r">>, <<"t","h","e","y">>, <<"t","h","e","m">>,
    <<"h","i","m">>, <<"s","h","e">>, <<"h","e">>, <<"w","h","o">>, <<"w","h","y">>,
    <<"w","h","a","t">>, <<"w","h","e","n">>, <<"h","o","w">>, <<"w","h","i","c","h">>
  }

HARD_SKILLS ==
  <<
    <<"p","y","t","h","o","n">>, <<"j","a","v","a">>, <<"c","+","+">>,
    <<"j","a","v","a","s","c","r","i","p","t">>, <<"r","e","a","c","t">>, <<"n","o","d","e">>,
    <<"s","q","l">>, <<"m","y","s","q","l">>, <<"p","o","s","t","g","r","e","s","q","l">>,
    <<"m","o","n","g","o","d","b">>, <<"a","w","s">>, <<"d","o","c","k","e","r">>,
    <<"k","u","b","e","r","n","e","t","e","s">>, <<"t","e","n","s","o","r","f","l","o","w">>,
    <<"p","y","t","o","r","c","h">>, <<"n","l","p">>,
    <<"m","a","c","h","i","n","e"," ","l","e","a","r","n","i","n","g">>,
    <<"d","e","e","p"," ","l","e","a","r","n","i","n","g">>, <<"e","x","c","e","l">>,
    <<"p","o","w","e","r"," ","b","i">>, <<"t","a","b","l","e","a","u">>, <<"h","t","m","l">>,
    <<"c","s","s">>, <<"d","j","a","n","g","o">>, <<"f","l","a","s","k">>
  >>

SOFT_SKILLS ==
  <<
    <<"t","e","a","m","w","o","r","k">>,
    <<"c","o","m","m","u","n","i","c","a","t","i","o","n">>,
    <<"l","e","a","d","e","r","s","h","i","p">>,
    <<"p","r","o","b","l","e","m"," ","s","o","l","v","i","n","g">>,
    <<"c","r","i","t","i","c","a","l"," ","t","h","i","n","k","i","n","g">>,
    <<"a","d","a","p","t","a","b","i","l","i","t","y">>,
    <<"c","r","e","a","t","i","v","i","t","y">>,
    <<"t","i","m","e"," ","m","a","n","a","g","e","m","e","n","t">>
  >>

JOB_TITLES ==
  <<
    <<"s","o","f","t","w","a","r","e"," ","e","n","g","i","n","e","e","r">>,
    <<"d","e","v","e","l","o","p","e","r">>,
    <<"d","a","t","a"," ","a","n","a","l","y","s","t">>,
    <<"d","a","t","a"," ","s","c","i","e","n","t","i","s","t">>,
    <<"w","e","b"," ","d","e","v","e","l","o","p","e","r">>,
    <<"b","a","c","k","e","n","d"," ","d","e","v","e","l","o","p","e","r">>,
    <<"f","r","o","n","t","e","n","d"," ","d","e","v","e","l","o","p","e","r">>,
    <<"m","a","c","h","i","n","e"," ","l","e","a","r","n","i","n","g"," ","e","n","g","i","n","e","e","r">>
  >>

ACTION_VERBS ==
  <<
    <<"b","u","i","l","t">>, <<"c","r","e","a","t","e","d">>,
    <<"d","e","v","e","l","o","p","e","d">>, <<"m","a","n","a","g","e","d">>, <<"l","e","d">>,
    <<"o","p","t","i","m","i","z","e","d">>, <<"d","e","s","i","g","n","e","d">>,
    <<"l","a","u","n","c","h","e","d">>, <<"i","m","p","r","o","v","e","d">>,
    <<"i","m","p","l","e","m","e","n","t","e","d">>, <<"r","e","d","u","c","e","d">>,
    <<"i","n","c","r","e","a","s","e","d">>, <<"a","n","a","l","y","z","e","d">>,
    <<"s","o","l","v","e","d">>, <<"c","o","n","f","i","g","u","r","e","d">>,
    <<"d","i","r","e","c","t","e","d">>, <<"a","u","t","o","m","a","t","e","d">>,
    <<"m","a","i","n","t","a","i","n","e","d">>, <<"t","r","a","i","n","e","d">>,
    <<"o","r","g","a","n","i","z","e","d">>
  >>

WEAK_PHRASES ==
  <<
    <<"r","e","s","p","o","n","s","i","b","l","e"," ","f","o","r">>,
    <<"h","e","l","p","e","d"," ","w","i","t","h">>, <<"w","o","r","k","e","d"," ","o","n">>,
    <<"a","s","s","i","s","t","e","d"," ","w","i","t","h">>,
    <<"p","a","r","t","i","c","i","p","a","t","e","d"," ","i","n">>,
    <<"i","n","v","o","l","v","e","d"," ","i","n">>
  >>

PASSIVE_VERBS ==
  <<
    <<"w","a","s">>, <<"w","e","r","e">>, <<"i","s">>, <<"a","r","e">>, <<"b","e","e","n">>,
    <<"b","e">>, <<"b","e","i","n","g">>
  >>

---------------------------------------------------------------------------
(* normalize_text (lines 189-202) *)

\* re.sub(r"[^a-z0-9\s]", " ", t) on one character
KeepOrBlank(c) ==
  IF c \in LowerSet \cup DIGITS \cup WHITESPACE THEN c ELSE " "

\* line 200 with len(w) >= 2
KeepWordOffByOne(w) == w \notin module_globals.STOPWORDS /\ Len(w) >= 2

\* the filter of the comprehension: w not in STOPWORDS and len(w) > 2
KeepWord(w) == w \notin module_globals.STOPWORDS /\ Len(w) > 2

normalize_text(t) ==
  LET lowered == Lower(t)
      cleaned == Tuple([i \in 1..Len(lowered) |-> KeepOrBlank(lowered[i])], Len(lowered))
      words   == Split(cleaned)
  IN  SelectSeq(words, KeepWord)

---------------------------------------------------------------------------
(* Issues and the running (score, issues) pair of the two analyzers *)

\* an issue string: its fixed text, and what an f-string puts into it
Issue(msg) == [msg |-> msg, words |-> <<>>, n |-> 0]

\* "if cond: issues.append(issue); score -= points"
Penalize(acc, cond, issue, points) ==
  IF cond THEN [score |-> acc.score - points, issues |-> Append(acc.issues, issue)]
  ELSE acc

---------------------------------------------------------------------------
(* What the parsers make of file_bytes.  file_bytes is the record            *)
(*   [empty, format, blocks, tables, images, sections]:                       *)
(*   empty    - no bytes at all                                                *)
(*   format   - "pdf", "docx" or "junk": what the bytes parse as               *)
(*   blocks   - the page texts (pdf) or paragraph texts (docx)                 *)
(*   tables, images - "none", "some", or "raise" when reading them raises      *)
(*   sections - docx sections, each [header, footer] with "blank", "text",     *)
(*              or "raise" when paragraphs[0] does not exist                   *)
(***************************************************************************)

\* pdfplumber.open(io.BytesIO(file_bytes)) returns
PdfOpens(file_bytes) == ~file_bytes.empty /\ file_bytes.format = "pdf"

\* docx.Document(io.BytesIO(file_bytes)) returns
DocxOpens(file_bytes) == ~file_bytes.empty /\ file_bytes.format = "docx"

\* lines 89-95; a page without text contributes "" ("page.extract_text() or ''")
extract_text_from_pdf(file_bytes) ==
  LET pages == file_bytes.blocks
  IN  Strip(Concat(Tuple([i \in 1..Len(pages) |-> pages[i] \o <<"\n">>], Len(pages))))

\* lines 98-101
extract_text_from_docx(file_bytes) ==
  Strip(Join(<<"\n">>, file_bytes.blocks))

---------------------------------------------------------------------------
(* analyze_formatting (lines 107-183) *)

\* str.isupper(): at least one cased character, and no lower-case one
IsUpperStr(line) ==
  /\ \E i \in 1..Len(line) : IsUpperChar(line[i])
  /\ \A i \in 1..Len(line) : ~IsLowerChar(line[i])

\* any(line.isupper() and len(line) > 5 for line in text.split("\n"))
HasCapsLine(text) ==
  LET lines == SplitOn(text, "\n")
  IN  \E i \in 1..Len(lines) : IsUpperStr(lines[i]) /\ Len(lines[i]) > 5

\* re.search(r"[^\x00-\x7F]", text)
HasNonAscii(text) == \E i \in 1..Len(text) : text[i] \in NON_ASCII

\* re.search(r"\s{3,}", text)
HasWhitespaceRun(text) ==
  \E i \in 1..(Len(text) - 2) : \A k \in 0..2 : IsSpace(text[i + k])

\* pages = len(text.split("\f"))
PageCount(text) == Len(SplitOn(text, "\f"))

\* lines 108-134: the checks on the text alone
TextChecks(text) ==
  LET a0 == [score |-> 20, issues |-> <<>>]
      a1 == Penalize(a0, Len(text) < 200,
                     Issue("Resume text seems too short. ATS may not read it well."), 2)
      a2 == Penalize(a1, HasCapsLine(text), Issue("Too many ALL CAPS lines detected."), 1)
      a3 == Penalize(a2, HasNonAscii(text),
                     Issue("Non-ASCII characters detected. ATS may not parse them."), 2)
      a4 == Penalize(a3, \E i \in 1..Len(text) : text[i] = "\t",
                     Issue("Tabs detected - may indicate multi-column layout."), 3)
      a5 == Penalize(a4, HasWhitespaceRun(text),
                     Issue("Multiple consecutive spaces detected - avoid manual alignment."), 2)
  IN  Penalize(a5, PageCount(text) > 2,
               [msg |-> "Resume is too long. Keep it under 2 pages.", words |-> <<>>,
                n |-> PageCount(text)], 3)

\* lines 151-153
PdfExcept(acc) == Penalize(acc, TRUE, Issue("PDF may be scanned or image-based."), 4)

\* lines 138-153: the try block runs until a statement raises
PdfChecks(acc, file_bytes) ==
  IF ~PdfOpens(file_bytes) \/ file_bytes.tables = "raise" THEN PdfExcept(acc)
  ELSE LET a1 == Penalize(acc, file_bytes.tables = "some",
                          Issue("Tables detected - ATS may fail to read table content."), 4)
       IN  IF file_bytes.images = "raise" THEN PdfExcept(a1)
           ELSE Penalize(a1, file_bytes.images = "some",
                         Issue("Images/icons detected. ATS cannot read images."), 3)

\* lines 178-180
DocxExcept(acc) == Penalize(acc, TRUE, Issue("DOCX parsing issue."), 3)

\* lines 168-176: the loop over doc.sections, from section i on
RECURSIVE SectionChecks(_, _, _)
SectionChecks(acc, sections, i) ==
  IF i > Len(sections) THEN acc
  ELSE IF sections[i].header = "raise" \/ sections[i].footer = "raise" THEN DocxExcept(acc)
  ELSE LET a1 == Penalize(acc, sections[i].header = "text",
                   Issue("Header contains text - ATS often ignores header content."), 2)
           a2 == Penalize(a1, sections[i].footer = "text",
                   Issue("Footer contains text - ATS often ignores footer content."), 2)
       IN  SectionChecks(a2, sections, i + 1)

\* lines 157-180
DocxChecks(acc, file_bytes) ==
  IF ~DocxOpens(file_bytes) \/ file_bytes.tables = "raise" THEN DocxExcept(acc)
  ELSE LET a1 == Penalize(acc, file_bytes.tables = "some",
                          Issue("Tables detected in DOCX - ATS cannot read tables well."), 4)
       IN  IF file_bytes.images = "raise" THEN DocxExcept(a1)
           ELSE SectionChecks(Penalize(a1, file_bytes.images = "some",
                                       Issue("Images/icons detected in DOCX."), 3),
                              file_bytes.sections, 1)

\* line 182: max(0, min(formatting_score, 20))
ClampFormatting(score) == Max(0, Min(score, 20))

analyze_formatting(text, file_bytes, filename) ==
  LET a1 == TextChecks(text)
      a2 == IF EndsWith(filename, <<".","p","d","f">>) THEN PdfChecks(a1, file_bytes) ELSE a1
      a3 == IF EndsWith(filename, <<".","d","o","c","x">>) THEN DocxChecks(a2, file_bytes)
            ELSE a2
  IN  [score |-> ClampFormatting(a3.score), issues |-> a3.issues]

---------------------------------------------------------------------------
(* analyze_writing (lines 208-254) *)

\* lines 212-213: the stripped non-blank lines that start with a bullet mark
Bullets(text) ==
  LET raw   == SplitOn(text, "\n")
      lines == SelectSeq(Tuple([i \in 1..Len(raw) |-> Strip(raw[i])], Len(raw)),
                         LAMBDA l : l # <<>>)
  IN  SelectSeq(lines, LAMBDA l : l[1] \in {"-", "U+2022", "*"})

\* re.search(r"\d+%|\d{2,}", text)
HasAchievement(text) ==
  \E i \in 1..(Len(text) - 1) :
    text[i] \in DIGITS /\ (text[i + 1] = "%" \/ text[i + 1] \in DIGITS)

\* line 227
WeakFound(text) ==
  LET low == Lower(text)
  IN  SelectSeq(module_globals.WEAK_PHRASES, LAMBDA p : Contains(low, p))

\* lines 233-235: the words longer than 3 that occur more than 5 times, in the
\* order a Counter keeps them (first occurrence)
Repeated(text) ==
  LET words == SelectSeq(Split(Lower(text)), LAMBDA w : Len(w) > 3)
  IN  SelectSeq(Keys(words), LAMBDA w : Count(words, w) > 5)

\* lines 247-251 without the break: one append for each bullet of more than 25 words
LongBulletAppendsNoBreak(bullets) ==
  Cardinality({i \in 1..Len(bullets) : Len(Split(bullets[i])) > 25})

\* lines 247-251: how often the loop body appends; the break ends it at the first
\* bullet of more than 25 words
LongBulletAppends(bullets) ==
  IF \E i \in 1..Len(bullets) : Len(Split(bullets[i])) > 25 THEN 1 ELSE 0

\* line 253: max(0, min(writing_score, 30))
ClampWriting(score) == Max(0, Min(score, 30))

analyze_writing(text) ==
  LET tokens == Split(Lower(text))
      a0 == [score |-> 30, issues |-> <<>>]
      a1 == Penalize(a0, CountIn(tokens, Range(module_globals.ACTION_VERBS)) < 5,
              Issue("Few action verbs found. Use stronger verbs like Built, Led, Created."), 4)
      a2 == Penalize(a1, ~HasAchievement(text),
              Issue("Add measurable achievements (numbers or percentages)."), 4)
      a3 == Penalize(a2, WeakFound(text) # <<>>,
              [msg |-> "Weak phrases detected", words |-> WeakFound(text), n |-> 0], 3)
      rep == Repeated(text)
      a4 == Penalize(a3, rep # <<>>,
              [msg |-> "Overused words", words |-> SubSeq(rep, 1, Min(5, Len(rep))),
               n |-> 0], 3)
      a5 == Penalize(a4, CountIn(tokens, Range(module_globals.PASSIVE_VERBS)) > 10,
              Issue("Too much passive voice detected."), 3)
      k  == LongBulletAppends(Bullets(text))
      a6 == [score  |-> a5.score - 2 * k,
             issues |-> a5.issues \o
                        Tuple([i \in 1..k |->
                                 Issue("Some bullet points are too long. Keep under 25 words.")],
                              k)]
  IN  [score |-> ClampWriting(a6.score), issues |-> a6.issues]

---------------------------------------------------------------------------
(* The texts the model is run on *)

\* 'Summary: backend developer with teamwork\nSkills: python sql aws docker react node java\n...
RESUME_GOOD ==
  <<"S","u","m","m","a","r","y",":"," ","b","a","c","k","e","n","d"," ","d","e","v","e","l",
    "o","p","e","r"," ","w","i","t","h"," ","t","e","a","m","w","o","r","k","\n","S","k","i",
    "l","l","s",":"," ","p","y","t","h","o","n"," ","s","q","l"," ","a","w","s"," ","d","o",
    "c","k","e","r"," ","r","e","a","c","t"," ","n","o","d","e"," ","j","a","v","a","\n","E",
    "x","p","e","r","i","e","n","c","e",":"," ","b","u","i","l","t"," ","l","e","d"," ","c",
    "r","e","a","t","e","d"," ","m","a","n","a","g","e","d"," ","d","e","s","i","g","n","e",
    "d"," ","1","2"," ","s","e","r","v","i","c","e","s","\n","E","d","u","c","a","t","i","o",
    "n",":"," ","B","S","c"," ","i","n"," ","c","o","m","p","u","t","i","n","g",","," ","g",
    "r","a","d","u","a","t","e","d"," ","w","i","t","h"," ","h","o","n","o","u","r","s",",",
    " ","2","0","1","9">>

\* 'SKILLS\t\x0c\x0c• 90%'
RESUME_LAYOUT ==
  <<"S","K","I","L","L","S","\t","\f","\f","U+2022"," ","9","0","%">>

\* '- worked on data data data data data data was was was was was was was was was was was'
RESUME_WEAK ==
  <<"-"," ","w","o","r","k","e","d"," ","o","n"," ","d","a","t","a"," ","d","a","t","a"," ",
    "d","a","t","a"," ","d","a","t","a"," ","d","a","t","a"," ","d","a","t","a"," ","w","a",
    "s"," ","w","a","s"," ","w","a","s"," ","w","a","s"," ","w","a","s"," ","w","a","s"," ",
    "w","a","s"," ","w","a","s"," ","w","a","s"," ","w","a","s"," ","w","a","s">>

\* '* a a a a a a a a a a a a a a a a a a a a a a a a a'
RESUME_LONG_BULLET ==
  <<"*"," ","a"," ","a"," ","a"," ","a"," ","a"," ","a"," ","a"," ","a"," ","a"," ","a"," ",
    "a"," ","a"," ","a"," ","a"," ","a"," ","a"," ","a"," ","a"," ","a"," ","a"," ","a"," ",
    "a"," ","a"," ","a"," ","a">>

\* 'python java javascript react node sql mysql postgresql mongodb aws docker kubernetes tens...
RESUME_STACK ==
  <<"p","y","t","h","o","n"," ","j","a","v","a"," ","j","a","v","a","s","c","r","i","p","t",
    " ","r","e","a","c","t"," ","n","o","d","e"," ","s","q","l"," ","m","y","s","q","l"," ",
    "p","o","s","t","g","r","e","s","q","l"," ","m","o","n","g","o","d","b"," ","a","w","s",
    " ","d","o","c","k","e","r"," ","k","u","b","e","r","n","e","t","e","s"," ","t","e","n",
    "s","o","r","f","l","o","w"," ","p","y","t","o","r","c","h">>

\* '  '
RESUME_BLANK ==
  <<" "," ">>

\* 'Developer: built SQL skills'
RESUME_SHORT ==
  <<"D","e","v","e","l","o","p","e","r",":"," ","b","u","i","l","t"," ","S","Q","L"," ","s","k","i","l","l","s">>

\* ''
JOB_EMPTY ==
  <<>>

\* 'Is it an AI/ML of us?'
JOB_NO_TOKENS ==
  <<"I","s"," ","i","t"," ","a","n"," ","A","I","/","M","L"," ","o","f"," ","u","s","?">>

\* 'Senior Python developer with teamwork and SQL, AWS, Docker, React, Node, Java services'
JOB_GOOD ==
  <<"S","e","n","i","o","r"," ","P","y","t","h","o","n"," ","d","e","v","e","l","o","p","e",
    "r"," ","w","i","t","h"," ","t","e","a","m","w","o","r","k"," ","a","n","d"," ","S","Q",
    "L",","," ","A","W","S",","," ","D","o","c","k","e","r",","," ","R","e","a","c","t",",",
    " ","N","o","d","e",","," ","J","a","v","a"," ","s","e","r","v","i","c","e","s">>

\* 'SQL developer, built-in'
JOB_SHORT ==
  <<"S","Q","L"," ","d","e","v","e","l","o","p","e","r",","," ","b","u","i","l","t","-","i","n">>

\* 'Her her7 H7e-eh'
NORMALIZE_RESUME ==
  <<"H","e","r"," ","h","e","r","7"," ","H","7","e","-","e","h">>

\* 'cv.pdf'
NAME_PDF ==
  <<"c","v",".","p","d","f">>

\* 'CV.PDF'
NAME_PDF_UPPER ==
  <<"C","V",".","P","D","F">>

\* 'cv.docx'
NAME_DOCX ==
  <<"c","v",".","d","o","c","x">>

\* 'cv.txt'
NAME_TXT ==
  <<"c","v",".","t","x","t">>

\* 'I am a dev.'
FIELD_A ==
  <<"I"," ","a","m"," ","a"," ","d","e","v",".">>

\* 'Python SQL developer'
FIELD_B ==
  <<"P","y","t","h","o","n"," ","S","Q","L"," ","d","e","v","e","l","o","p","e","r">>

---------------------------------------------------------------------------
(* Requests.  NReq handlers may be in flight at once; each has its own frame. *)

NReq == 2

Reqs == 1..NReq

UPLOAD == "/upload-resume"

AI_ENDPOINTS ==
  {"/ai/rewrite-summary", "/ai/rewrite-bullet", "/ai/improve-section",
   "/ai/keyword-optimize", "/ai/full-ats-improve"}

\* the key of the dict each /ai/* endpoint returns (lines 404, 425, 448, 475, 518)
ResultKey(endpoint) ==
  CASE endpoint = "/ai/rewrite-summary"  -> "improved_summary"
    [] endpoint = "/ai/rewrite-bullet"   -> "improved_bullet"
    [] endpoint = "/ai/improve-section"  -> "improved_section"
    [] endpoint = "/ai/keyword-optimize" -> "keyword_optimization"
    [] endpoint = "/ai/full-ats-improve" -> "full_improvement"

\* a local variable of handler r
Local(r, name) == frame[r][name]

Bound(r, name) == name \in DOMAIN frame[r]

\* the names bound at module level instead: one frame for all the handlers
BindShared(frames, r, bindings) == [q \in DOMAIN frames |-> bindings @@ frames[r]]

\* the handler of request r binds its local variables in its own frame: every name
\* assigned in upload_resume and the /ai/* handlers is a local of the call
Bind(frames, r, bindings) == [frames EXCEPT ![r] = bindings @@ @]

\* raise HTTPException(status_code=400, detail=...)
Rejection(detail) == [status |-> 400, detail |-> detail, body |-> <<>>]

\* an exception that leaves the handler: the framework answers 500 and the
\* handler supplies no detail
Unhandled == [status |-> 500, detail |-> "", body |-> <<>>]

NoResponse == [status |-> 0, detail |-> "", body |-> <<>>]

Goto(r, label) == pc' = [pc EXCEPT ![r] = label]

---------------------------------------------------------------------------
(* upload_resume (lines 273-380) *)

\* lines 277-281: the file is read and is not empty
ReadFile(r) ==
  /\ pc[r] = "start" /\ request[r].endpoint = UPLOAD
  /\ ~request[r].file_bytes.empty
  /\ frame' = Bind(frame, r,
                   "file_bytes" :> request[r].file_bytes @@
                   "filename" :> Lower(request[r].filename))
  /\ Goto(r, "extract")
  /\ UNCHANGED <<module_globals, hash_seed, request, response>>

\* lines 278-279
RejectEmptyFile(r) ==
  /\ pc[r] = "start" /\ request[r].endpoint = UPLOAD
  /\ request[r].file_bytes.empty
  /\ response' = [response EXCEPT ![r] = Rejection("Empty file uploaded.")]
  /\ Goto(r, "rejected")
  /\ UNCHANGED <<module_globals, hash_seed, request, frame>>

IsPdfName(filename) == EndsWith(filename, <<".","p","d","f">>)

IsDocxName(filename) == EndsWith(filename, <<".","d","o","c","x">>)

\* the extractor called at line 285 or 287 returns
ExtractorReturns(filename, file_bytes) ==
  \/ IsPdfName(filename) /\ PdfOpens(file_bytes)
  \/ ~IsPdfName(filename) /\ IsDocxName(filename) /\ DocxOpens(file_bytes)

\* lines 284-287, the extractor returns
ExtractText(r) ==
  /\ pc[r] = "extract"
  /\ ExtractorReturns(Local(r, "filename"), Local(r, "file_bytes"))
  /\ frame' = Bind(frame, r,
                   "text" :> IF IsPdfName(Local(r, "filename"))
                             THEN extract_text_from_pdf(Local(r, "file_bytes"))
                             ELSE extract_text_from_docx(Local(r, "file_bytes")))
  /\ Goto(r, "check_text")
  /\ UNCHANGED <<module_globals, hash_seed, request, response>>

\* lines 284-287, the parser raises on bytes it cannot read: nothing in
\* upload_resume catches it
ExtractRaises(r) ==
  /\ pc[r] = "extract"
  /\ IsPdfName(Local(r, "filename")) \/ IsDocxName(Local(r, "filename"))
  /\ ~ExtractorReturns(Local(r, "filename"), Local(r, "file_bytes"))
  /\ response' = [response EXCEPT ![r] = Unhandled]
  /\ Goto(r, "raised")
  /\ UNCHANGED <<module_globals, hash_seed, request, frame>>

\* lines 288-289
RejectUnsupported(r) ==
  /\ pc[r] = "extract"
  /\ ~IsPdfName(Local(r, "filename")) /\ ~IsDocxName(Local(r, "filename"))
  /\ response' = [response EXCEPT ![r] = Rejection("Unsupported file type.")]
  /\ Goto(r, "rejected")
  /\ UNCHANGED <<module_globals, hash_seed, request, frame>>

\* lines 291-292
RejectBlankText(r) ==
  /\ pc[r] = "check_text"
  /\ Strip(Local(r, "text")) = <<>>
  /\ response' = [response EXCEPT ![r] = Rejection("Could not extract text.")]
  /\ Goto(r, "rejected")
  /\ UNCHANGED <<module_globals, hash_seed, request, frame>>

\* any(x in lower for x in markers)
AnyIn(lower, markers) == \E i \in 1..Len(markers) : Contains(lower, markers[i])

SUMMARY_MARKERS ==
  << <<"s","u","m","m","a","r","y">>, <<"o","b","j","e","c","t","i","v","e">>,
     <<"p","r","o","f","i","l","e">> >>

SKILLS_MARKERS ==
  << <<"s","k","i","l","l","s">>,
     <<"t","e","c","h","n","i","c","a","l"," ","s","k","i","l","l","s">> >>

EXPERIENCE_MARKERS ==
  << <<"e","x","p","e","r","i","e","n","c","e">>,
     <<"w","o","r","k"," ","e","x","p","e","r","i","e","n","c","e">>,
     <<"e","m","p","l","o","y","m","e","n","t">> >>

EDUCATION_MARKERS ==
  << <<"e","d","u","c","a","t","i","o","n">>, <<"a","c","a","d","e","m","i","c","s">>,
     <<"q","u","a","l","i","f","i","c","a","t","i","o","n">> >>

\* lines 295-301
DetectSections(text) ==
  LET lower == Lower(text)
  IN  [summary    |-> AnyIn(lower, SUMMARY_MARKERS),
       skills     |-> AnyIn(lower, SKILLS_MARKERS),
       experience |-> AnyIn(lower, EXPERIENCE_MARKERS),
       education  |-> AnyIn(lower, EDUCATION_MARKERS)]

\* lines 303-311 with the points of summary and skills exchanged
StructureScoreExchanged(sections) ==
  (IF sections.summary THEN 10 ELSE 0) + (IF sections.skills THEN 5 ELSE 0)
  + (IF sections.experience THEN 10 ELSE 0) + (IF sections.education THEN 5 ELSE 0)

\* lines 303-311
StructureScore(sections) ==
  LET s1 == IF sections.summary THEN 0 + 5 ELSE 0
      s2 == IF sections.skills THEN s1 + 10 ELSE s1
      s3 == IF sections.experience THEN s2 + 10 ELSE s2
  IN  IF sections.education THEN s3 + 5 ELSE s3

\* lines 291-311: the text is not blank; section detection and the structure score
SectionDetection(r) ==
  /\ pc[r] = "check_text"
  /\ Strip(Local(r, "text")) # <<>>
  /\ LET sections == DetectSections(Local(r, "text"))
     IN  frame' = Bind(frame, r,
                       "sections" :> sections @@
                       "structure_score" :> StructureScore(sections))
  /\ Goto(r, "formatting")
  /\ UNCHANGED <<module_globals, hash_seed, request, response>>

\* line 314
Formatting(r) ==
  /\ pc[r] = "formatting"
  /\ LET res == analyze_formatting(Local(r, "text"), Local(r, "file_bytes"),
                                   Local(r, "filename"))
     IN  frame' = Bind(frame, r,
                       "formatting_score" :> res.score @@
                       "formatting_issues" :> res.issues)
  /\ Goto(r, "keywords")
  /\ UNCHANGED <<module_globals, hash_seed, request, response>>

\* the order in which "for word in job_set" yields the elements of set(words): it
\* is fixed by the process's hash seed
IterationOrder(words, seed) ==
  LET base == Keys(words)
      n    == Len(base)
      rot  == Tuple([i \in 1..n |-> base[((i - 1 + (seed \div 2)) % n) + 1]], n)
  IN  IF seed % 2 = 0 THEN rot ELSE Tuple([i \in 1..n |-> rot[n + 1 - i]], n)

\* line 326 looping over resume_set
LoopWordsResume(resume_words, job_words) == resume_words

\* lines 321 and 326: the list whose set the loop runs over
LoopWords(resume_words, job_words) == job_words

\* lines 317-324, and the iterator of the for loop of line 326
KeywordSetup(r) ==
  /\ pc[r] = "keywords"
  /\ LET resume_words == normalize_text(Local(r, "text"))
         job_words    == normalize_text(request[r].job_description)
     IN  frame' = Bind(frame, r,
                       "resume_words" :> resume_words @@
                       "job_words" :> job_words @@
                       "resume_set" :> Range(resume_words) @@
                       "job_set" :> Range(job_words) @@
                       "matched_keywords" :> <<>> @@
                       "keyword_score" :> 0 @@
                       "for_word" :> IterationOrder(LoopWords(resume_words, job_words),
                                                    hash_seed))
  /\ Goto(r, "keyword_loop")
  /\ UNCHANGED <<module_globals, hash_seed, request, response>>

\* lines 327-338 with the points of soft skills and job titles exchanged
KeywordPointsExchanged(word, resume_set) ==
  IF word \in Range(module_globals.HARD_SKILLS) /\ word \in resume_set THEN 4
  ELSE IF word \in Range(module_globals.SOFT_SKILLS) /\ word \in resume_set THEN 3
  ELSE IF word \in Range(module_globals.JOB_TITLES) /\ word \in resume_set THEN 2
  ELSE IF word \in resume_set THEN 1
  ELSE 0

\* lines 327-338: the points of the if/elif chain for one word; 0 when no branch
\* is taken
KeywordPoints(word, resume_set) ==
  IF word \in Range(module_globals.HARD_SKILLS) /\ word \in resume_set THEN 4
  ELSE IF word \in Range(module_globals.SOFT_SKILLS) /\ word \in resume_set THEN 2
  ELSE IF word \in Range(module_globals.JOB_TITLES) /\ word \in resume_set THEN 3
  ELSE IF word \in resume_set THEN 1
  ELSE 0

\* lines 326-338: one iteration of the loop
KeywordLoop(r) ==
  /\ pc[r] = "keyword_loop"
  /\ Local(r, "for_word") # <<>>
  /\ LET word   == Head(Local(r, "for_word"))
         points == KeywordPoints(word, Local(r, "resume_set"))
     IN  frame' = Bind(frame, r,
                       "for_word" :> Tail(Local(r, "for_word")) @@
                       "keyword_score" :> Local(r, "keyword_score") + points @@
                       "matched_keywords" :>
                          IF points > 0 THEN Append(Local(r, "matched_keywords"), word)
                          ELSE Local(r, "matched_keywords"))
  /\ UNCHANGED <<module_globals, hash_seed, request, response, pc>>

\* line 340 without the cap
UncappedKeyword(score) == score

\* line 340: min(keyword_score, 50)
CapKeyword(score) == Min(score, 50)

\* line 340, after the loop has ended
KeywordCap(r) ==
  /\ pc[r] = "keyword_loop"
  /\ Local(r, "for_word") = <<>>
  /\ frame' = Bind(frame, r, "keyword_score" :> CapKeyword(Local(r, "keyword_score")))
  /\ Goto(r, "writing")
  /\ UNCHANGED <<module_globals, hash_seed, request, response>>

\* line 343
Writing(r) ==
  /\ pc[r] = "writing"
  /\ LET res == analyze_writing(Local(r, "text"))
     IN  frame' = Bind(frame, r,
                       "writing_score" :> res.score @@ "writing_issues" :> res.issues)
  /\ Goto(r, "aggregate")
  /\ UNCHANGED <<module_globals, hash_seed, request, response>>

\* line 347: min(100, ats_score)
CapAts(score) == Min(100, score)

\* lines 346-347
Aggregate(r) ==
  /\ pc[r] = "aggregate"
  /\ frame' = Bind(frame, r,
                   "ats_score" :> CapAts(Local(r, "structure_score")
                                         + Local(r, "formatting_score")
                                         + Local(r, "keyword_score")
                                         + Local(r, "writing_score")))
  /\ Goto(r, "respond")
  /\ UNCHANGED <<module_globals, hash_seed, request, response>>

\* lines 350-363
Suggestions(sections, job_description, matched_keywords) ==
  (IF ~sections.summary THEN <<Issue("Add a professional summary at the top.")>> ELSE <<>>)
  \o (IF ~sections.skills THEN <<Issue("Include a skills section.")>> ELSE <<>>)
  \o (IF ~sections.experience THEN <<Issue("Add a detailed experience section.")>>
      ELSE <<>>)
  \o (IF ~sections.education THEN <<Issue("Include an education section.")>> ELSE <<>>)
  \o (IF Strip(job_description) # <<>>
      THEN <<[msg |-> "Matched job keywords. Add more relevant keywords truthfully.",
              words |-> <<>>, n |-> Len(matched_keywords)]>>
      ELSE <<>>)

\* lines 365-380: the dict returned
UploadBody(r) ==
  [filename           |-> request[r].filename,
   char_count         |-> Len(Local(r, "text")),
   sections_found     |-> Local(r, "sections"),
   structure_score    |-> Local(r, "structure_score"),
   formatting_score   |-> Local(r, "formatting_score"),
   formatting_issues  |-> Local(r, "formatting_issues"),
   keyword_score      |-> Local(r, "keyword_score"),
   matched_keywords   |-> Local(r, "matched_keywords"),
   writing_score      |-> Local(r, "writing_score"),
   writing_issues     |-> Local(r, "writing_issues"),
   ats_score          |-> Local(r, "ats_score"),
   suggestions        |-> Suggestions(Local(r, "sections"), request[r].job_description,
                                      Local(r, "matched_keywords")),
   preview            |-> SubSeq(Local(r, "text"), 1, Min(800, Len(Local(r, "text")))),
   job_description    |-> request[r].job_description]

\* lines 350-380
Respond(r) ==
  /\ pc[r] = "respond"
  /\ response' = [response EXCEPT ![r] = [status |-> 200, detail |-> "",
                                          body |-> UploadBody(r)]]
  /\ Goto(r, "done")
  /\ UNCHANGED <<module_globals, hash_seed, request, frame>>

---------------------------------------------------------------------------
(* gemini_generate and the /ai/* endpoints (lines 260-266, 386-518) *)

\* the classes derived from Exception that the collaborator raises: a blocked or
\* malformed response (ValueError), quota, timeout, outage
EXCEPTION_CLASSES ==
  {"ValueError", "ResourceExhausted", "DeadlineExceeded", "ServiceUnavailable"}

\* line 265 as "except ValueError"
ExceptCatchesValueError(exc) == exc.class = "ValueError"

\* line 265: "except Exception" catches every class derived from Exception
ExceptCatches(exc) == exc.class \in EXCEPTION_CLASSES

\* lines 260-266.  collaborator.fails_at names the statement of the try block
\* that raises ("model", "generate", "text"), or "none"; the value returned is
\* the sequence of the pieces of the string
gemini_generate(prompt, collaborator) ==
  IF collaborator.fails_at = "none"
  THEN [raised |-> FALSE, value |-> <<collaborator.text>>]
  ELSE IF ExceptCatches(collaborator.exc)
  THEN [raised |-> FALSE, value |-> <<"AI Error: ", collaborator.exc.msg>>]
  ELSE [raised |-> TRUE, value |-> <<>>]

\* the f-string of each endpoint: the fixed instruction text of the endpoint and
\* the two form fields
BuildPrompt(r) ==
  /\ pc[r] = "start" /\ request[r].endpoint \in AI_ENDPOINTS
  /\ frame' = Bind(frame, r,
                   "prompt" :> <<request[r].endpoint>> \o request[r].form)
  /\ Goto(r, "generate")
  /\ UNCHANGED <<module_globals, hash_seed, request, response>>

\* result = gemini_generate(prompt)
Generate(r) ==
  /\ pc[r] = "generate"
  /\ LET out == gemini_generate(Local(r, "prompt"), request[r].collaborator)
     IN  IF out.raised
         THEN /\ response' = [response EXCEPT ![r] = Unhandled]
              /\ Goto(r, "raised")
              /\ UNCHANGED frame
         ELSE /\ frame' = Bind(frame, r, "result" :> out.value)
              /\ Goto(r, "ai_return")
              /\ UNCHANGED response
  /\ UNCHANGED <<module_globals, hash_seed, request>>

\* return {key: result}
AiReturn(r) ==
  /\ pc[r] = "ai_return"
  /\ response' = [response EXCEPT ![r] =
                    [status |-> 200, detail |-> "",
                     body |-> (ResultKey(request[r].endpoint) :> Local(r, "result"))]]
  /\ Goto(r, "done")
  /\ UNCHANGED <<module_globals, hash_seed, request, frame>>

\* one step of the handler of request r
Step(r) ==
  \/ ReadFile(r)
  \/ RejectEmptyFile(r)
  \/ ExtractText(r)
  \/ ExtractRaises(r)
  \/ RejectUnsupported(r)
  \/ RejectBlankText(r)
  \/ SectionDetection(r)
  \/ Formatting(r)
  \/ KeywordSetup(r)
  \/ KeywordLoop(r)
  \/ KeywordCap(r)
  \/ Writing(r)
  \/ Aggregate(r)
  \/ Respond(r)
  \/ BuildPrompt(r)
  \/ Generate(r)
  \/ AiReturn(r)

Next == \E r \in Reqs : Step(r)

---------------------------------------------------------------------------
(* The requests the model is run on *)

MaxBlocks == 2

MaxSections == 2

MaxJobLen == 4

MaxHashSeed == 1

RECURSIVE SeqsUpTo(_, _)
\* the sequences over S of length at most n
SeqsUpTo(S, n) ==
  IF n = 0 THEN {<<>>}
  ELSE LET shorter == SeqsUpTo(S, n - 1)
       IN  shorter \cup {Append(q, x) : q \in shorter, x \in S}

NoCollaborator == [fails_at |-> "none", exc |-> [class |-> "", msg |-> ""], text |-> ""]

NoFile ==
  [empty |-> TRUE, format |-> "junk", blocks |-> <<>>, tables |-> "none",
   images |-> "none", sections |-> <<>>]

IdleRequest ==
  [endpoint |-> "none", filename |-> <<>>, file_bytes |-> NoFile,
   job_description |-> <<>>, form |-> <<>>, collaborator |-> NoCollaborator]

Upload(filename, file_bytes, job_description) ==
  [endpoint |-> UPLOAD, filename |-> filename, file_bytes |-> file_bytes,
   job_description |-> job_description, form |-> <<>>, collaborator |-> NoCollaborator]

\* a file of the given format whose pages or paragraphs are blocks, without
\* tables, images or sections
PlainFile(format, blocks) ==
  [empty |-> FALSE, format |-> format, blocks |-> blocks, tables |-> "none",
   images |-> "none", sections |-> <<>>]

Ai(endpoint, form, collaborator) ==
  [endpoint |-> endpoint, filename |-> <<>>, file_bytes |-> NoFile,
   job_description |-> <<>>, form |-> form, collaborator |-> collaborator]

Collaborators ==
  {[fails_at |-> "none", exc |-> [class |-> "", msg |-> ""], text |-> "Improved text"]}
  \cup {[fails_at |-> at, exc |-> [class |-> c, msg |-> "collaborator failed"], text |-> ""] :
          at \in {"model", "generate", "text"}, c \in EXCEPTION_CLASSES}

AiRequests ==
  {Ai(e, <<FIELD_A, FIELD_B>>, c) : e \in AI_ENDPOINTS, c \in Collaborators}

\* one request for every way through the handlers
CoverRequests ==
  AiRequests
  \cup {Upload(NAME_PDF, NoFile, JOB_GOOD),
        Upload(NAME_TXT, PlainFile("junk", <<RESUME_GOOD>>), JOB_GOOD),
        Upload(NAME_PDF, PlainFile("junk", <<>>), JOB_GOOD),
        Upload(NAME_DOCX, PlainFile("pdf", <<RESUME_GOOD>>), JOB_GOOD),
        Upload(NAME_PDF, PlainFile("pdf", <<RESUME_BLANK, <<>>>>), JOB_GOOD),
        Upload(NAME_PDF_UPPER, PlainFile("pdf", <<RESUME_GOOD>>), JOB_GOOD),
        Upload(NAME_DOCX, PlainFile("docx", <<RESUME_SHORT>>), JOB_SHORT)}

RESUME_BLOCKS ==
  {RESUME_GOOD, RESUME_LAYOUT, RESUME_WEAK, RESUME_LONG_BULLET, RESUME_STACK, RESUME_BLANK}

JOB_DESCRIPTIONS == {JOB_EMPTY, JOB_NO_TOKENS, JOB_GOOD, RESUME_STACK}

\* resumes of up to MaxBlocks pages, against each job description
TextRequests ==
  {Upload(NAME_PDF, PlainFile("pdf", blocks), jd) :
     blocks \in SeqsUpTo(RESUME_BLOCKS, MaxBlocks), jd \in JOB_DESCRIPTIONS}

READ_OUTCOMES == {"none", "some", "raise"}

SECTION_OUTCOMES == {"blank", "text", "raise"}

DocSections ==
  SeqsUpTo([header : SECTION_OUTCOMES, footer : SECTION_OUTCOMES], MaxSections)

\* one badly laid out page, in files of every structure
StructureRequests ==
  {Upload(NAME_DOCX,
          [empty |-> FALSE, format |-> "docx", blocks |-> <<RESUME_LAYOUT>>,
           tables |-> t, images |-> i, sections |-> s], JOB_EMPTY) :
     t \in READ_OUTCOMES, i \in READ_OUTCOMES, s \in DocSections}
  \cup
  {Upload(NAME_PDF,
          [empty |-> FALSE, format |-> "pdf", blocks |-> <<RESUME_LAYOUT>>,
           tables |-> t, images |-> i, sections |-> <<>>], JOB_EMPTY) :
     t \in READ_OUTCOMES, i \in READ_OUTCOMES}

NORMALIZE_ALPHABET == {"h", "e", "r", "H", "7", "-", " "}

\* every job description of up to MaxJobLen characters over the alphabet
NormalizeRequests ==
  {Upload(NAME_DOCX, PlainFile("docx", <<NORMALIZE_RESUME>>), jd) :
     jd \in SeqsUpTo(NORMALIZE_ALPHABET, MaxJobLen)}

\* the requests that run side by side
ConcurrentRequests ==
  {Upload(NAME_DOCX, PlainFile("docx", <<RESUME_SHORT>>), JOB_SHORT),
   Upload(NAME_PDF, PlainFile("pdf", <<RESUME_LAYOUT>>), JOB_EMPTY),
   Ai("/ai/rewrite-bullet", <<FIELD_A, FIELD_B>>,
      [fails_at |-> "generate",
       exc |-> [class |-> "ResourceExhausted", msg |-> "collaborator failed"],
       text |-> ""])}

Globals ==
  [STOPWORDS |-> STOPWORDS, HARD_SKILLS |-> HARD_SKILLS, SOFT_SKILLS |-> SOFT_SKILLS,
   JOB_TITLES |-> JOB_TITLES, ACTION_VERBS |-> ACTION_VERBS,
   WEAK_PHRASES |-> WEAK_PHRASES, PASSIVE_VERBS |-> PASSIVE_VERBS]

\* the process after start-up, with the requests of reqs received
Started(reqs, seeds) ==
  /\ module_globals = Globals
  /\ hash_seed \in seeds
  /\ request = reqs
  /\ pc = [r \in Reqs |-> IF reqs[r].endpoint = "none" THEN "idle" ELSE "start"]
  /\ frame = [r \in Reqs |-> <<>>]
  /\ response = [r \in Reqs |-> NoResponse]

\* one request in flight
Single(requests, seeds) ==
  \E rq \in requests :
    Started([r \in Reqs |-> IF r = 1 THEN rq ELSE IdleRequest], seeds)

InitCover == Single(CoverRequests, 0..MaxHashSeed)

Init ==
  \/ InitCover
  \/ Single(TextRequests, {0})
  \/ Single(StructureRequests, {0})

InitNormalize ==
  \/ InitCover
  \/ Single(NormalizeRequests, {0})

InitConcurrent ==
  \/ InitCover
  \/ \E reqs \in [Reqs -> ConcurrentRequests] : Started(reqs, 0..MaxHashSeed)

Spec == Init /\ [][Next]_vars

SpecNormalize == InitNormalize /\ [][Next]_vars

SpecConcurrent == InitConcurrent /\ [][Next]_vars
---------------------------------------------------------------------------
(* Properties *)

\* the handler of r has returned or raised
Finished(r) == pc[r] \in {"done", "rejected", "raised"}

\* upload_resume has returned its dict for r
Returned(r) == pc[r] = "done" /\ request[r].endpoint = UPLOAD

\* the scoring steps of upload_resume have begun for r
Scoring(r) ==
  pc[r] \in {"formatting", "keywords", "keyword_loop", "writing", "aggregate", "respond"}

SCORING_LOCALS ==
  {"sections", "structure_score", "formatting_score", "formatting_issues",
   "resume_words", "job_words", "resume_set", "job_set", "matched_keywords",
   "keyword_score", "writing_score", "writing_issues", "ats_score"}

\* C1: every dict upload_resume returns carries structure_score in 0..30,
\* formatting_score in 0..20, writing_score in 0..30, keyword_score in 0..50 and
\* ats_score in 0..100.
ScoresWithinBands ==
  \A r \in Reqs :
    Returned(r) =>
      /\ response[r].body.structure_score \in 0..30
      /\ response[r].body.formatting_score \in 0..20
      /\ response[r].body.writing_score \in 0..30
      /\ response[r].body.keyword_score \in 0..50
      /\ response[r].body.ats_score \in 0..100

\* a returned analysis in which the keyword cap and the overall cap both apply
CappedScoresReturned ==
  \E r \in Reqs :
    /\ Returned(r)
    /\ response[r].body.keyword_score = 50
    /\ response[r].body.ats_score = 100
    /\ Len(response[r].body.matched_keywords) > 12

Flag(b) == IF b THEN 1 ELSE 0

\* C2: the structure score returned is 5*summary + 10*skills + 10*experience +
\* 5*education over the section flags returned, and ats_score is the sum of the
\* four scores when that is at most 100, and 100 otherwise.
StructureAndTotalExact ==
  \A r \in Reqs :
    Returned(r) =>
      LET b     == response[r].body
          total == b.structure_score + b.formatting_score + b.writing_score
                   + b.keyword_score
      IN  /\ b.structure_score =
               5 * Flag(b.sections_found.summary) + 10 * Flag(b.sections_found.skills)
               + 10 * Flag(b.sections_found.experience)
               + 5 * Flag(b.sections_found.education)
          /\ b.ats_score = IF total > 100 THEN 100 ELSE total

\* a returned analysis whose four scores add up to more than 100, and one with the
\* summary section alone
TotalAboveCapReturned ==
  \E r \in Reqs :
    /\ Returned(r)
    /\ response[r].body.structure_score + response[r].body.formatting_score
       + response[r].body.writing_score + response[r].body.keyword_score > 100
    /\ response[r].body.ats_score = 100
    /\ response[r].body.structure_score = 30

\* whether the condition reported by msg holds of the call's arguments
FormattingTriggered(msg, text, file_bytes, filename) ==
  LET pdf   == IsPdfName(filename)
      docx  == IsDocxName(filename)
      secs  == file_bytes.sections
  IN  CASE msg = "Resume text seems too short. ATS may not read it well." ->
             Len(text) < 200
        [] msg = "Too many ALL CAPS lines detected." -> HasCapsLine(text)
        [] msg = "Non-ASCII characters detected. ATS may not parse them." ->
             HasNonAscii(text)
        [] msg = "Tabs detected - may indicate multi-column layout." ->
             "\t" \in Range(text)
        [] msg = "Multiple consecutive spaces detected - avoid manual alignment." ->
             HasWhitespaceRun(text)
        [] msg = "Resume is too long. Keep it under 2 pages." -> Count(text, "\f") > 1
        [] msg = "Tables detected - ATS may fail to read table content." ->
             pdf /\ file_bytes.tables = "some"
        [] msg = "Images/icons detected. ATS cannot read images." ->
             pdf /\ file_bytes.images = "some"
        [] msg = "PDF may be scanned or image-based." ->
             pdf /\ (~PdfOpens(file_bytes) \/ file_bytes.tables = "raise"
                     \/ file_bytes.images = "raise")
        [] msg = "Tables detected in DOCX - ATS cannot read tables well." ->
             docx /\ file_bytes.tables = "some"
        [] msg = "Images/icons detected in DOCX." ->
             docx /\ file_bytes.images = "some"
        [] msg = "Header contains text - ATS often ignores header content." ->
             docx /\ \E i \in 1..Len(secs) : secs[i].header = "text"
        [] msg = "Footer contains text - ATS often ignores footer content." ->
             docx /\ \E i \in 1..Len(secs) : secs[i].footer = "text"
        [] msg = "DOCX parsing issue." ->
             docx /\ (\/ ~DocxOpens(file_bytes)
                      \/ file_bytes.tables = "raise" \/ file_bytes.images = "raise"
                      \/ \E i \in 1..Len(secs) :
                           secs[i].header = "raise" \/ secs[i].footer = "raise")

FORMATTING_MESSAGES ==
  {"Resume text seems too short. ATS may not read it well.",
   "Too many ALL CAPS lines detected.",
   "Non-ASCII characters detected. ATS may not parse them.",
   "Tabs detected - may indicate multi-column layout.",
   "Multiple consecutive spaces detected - avoid manual alignment.",
   "Resume is too long. Keep it under 2 pages.",
   "Tables detected - ATS may fail to read table content.",
   "Images/icons detected. ATS cannot read images.",
   "PDF may be scanned or image-based.",
   "Tables detected in DOCX - ATS cannot read tables well.",
   "Images/icons detected in DOCX.",
   "Header contains text - ATS often ignores header content.",
   "Footer contains text - ATS often ignores footer content.",
   "DOCX parsing issue."}

\* how many issues of the list carry the message
IssueCount(issues, msg) == Cardinality({i \in 1..Len(issues) : issues[i].msg = msg})

\* C3: after analyze_formatting, every condition that holds of the arguments has
\* exactly one issue in the list and every condition that does not hold has none,
\* for files of any number of sections and for files whose inspection raises.
OneIssuePerTriggeredCondition ==
  \A r \in Reqs :
    Bound(r, "formatting_issues") =>
      \A msg \in FORMATTING_MESSAGES :
        IssueCount(Local(r, "formatting_issues"), msg) =
          Flag(FormattingTriggered(msg, Local(r, "text"), Local(r, "file_bytes"),
                                   Local(r, "filename")))

\* C4: with a job description that normalizes to no tokens, the handler never
\* raises or rejects once scoring has begun, and it returns keyword_score 0 with
\* an empty matched_keywords list.
EmptyJobNoKeywords ==
  \A r \in Reqs :
    (request[r].endpoint = UPLOAD /\ normalize_text(request[r].job_description) = <<>>) =>
      /\ Bound(r, "sections") => pc[r] \notin {"rejected", "raised"}
      /\ Returned(r) =>
           /\ response[r].status = 200
           /\ response[r].body.keyword_score = 0
           /\ response[r].body.matched_keywords = <<>>

\* an analysis returned for a resume with tokens against a job description that is
\* not empty and normalizes to no tokens
NoTokenJobReturned ==
  \E r \in Reqs :
    /\ Returned(r)
    /\ request[r].job_description # <<>>
    /\ normalize_text(request[r].job_description) = <<>>
    /\ Local(r, "resume_set") # {}

\* the weight the claim gives a token: hard skill 4, job title 3, soft skill 2,
\* any other token 1
TaxonomyWeight(w) ==
  IF w \in Range(HARD_SKILLS) THEN 4
  ELSE IF w \in Range(JOB_TITLES) THEN 3
  ELSE IF w \in Range(SOFT_SKILLS) THEN 2
  ELSE 1

RECURSIVE WeightSum(_)
WeightSum(S) ==
  IF S = {} THEN 0
  ELSE LET w == CHOOSE x \in S : TRUE IN TaxonomyWeight(w) + WeightSum(S \ {w})

\* C5: once the keyword loop has ended, keyword_score is the sum, capped at 50, of
\* one weight for each token that is in both the resume token set and the job
\* token set (hard skill 4 > job title 3 > soft skill 2 > other 1), and
\* matched_keywords holds each of these tokens exactly once and nothing else.
WeightedKeywordMatch ==
  \A r \in Reqs :
    (Bound(r, "keyword_score") /\ pc[r] \in {"writing", "aggregate", "respond", "done"}) =>
      LET both == Local(r, "resume_set") \cap Local(r, "job_set")
      IN  /\ Local(r, "keyword_score") = Min(50, WeightSum(both))
          /\ Range(Local(r, "matched_keywords")) = both
          /\ Len(Local(r, "matched_keywords")) = Cardinality(both)

\* an analysis returned with a hard skill, a job title, a soft skill and another
\* token matched, and a job token that is not in the resume
EveryWeightMatched ==
  \E r \in Reqs :
    /\ Returned(r)
    /\ {<<"p","y","t","h","o","n">>, <<"d","e","v","e","l","o","p","e","r">>,
        <<"t","e","a","m","w","o","r","k">>, <<"s","e","r","v","i","c","e","s">>}
         \subseteq Range(response[r].body.matched_keywords)
    /\ Local(r, "job_set") \ Local(r, "resume_set") # {}
    /\ response[r].body.keyword_score < 50

\* C6: each token list normalize_text has returned is unchanged by joining it
\* with single spaces and normalizing again, and none of its tokens is a
\* stop-word, is shorter than 3 characters, or has a character outside a-z, 0-9.
NormalizeIdempotent ==
  \A r \in Reqs :
    Bound(r, "job_words") =>
      \A words \in {Local(r, "job_words"), Local(r, "resume_words")} :
        /\ normalize_text(Join(<<" ">>, words)) = words
        /\ \A i \in 1..Len(words) :
             /\ words[i] \notin STOPWORDS
             /\ Len(words[i]) >= 3
             /\ Range(words[i]) \subseteq LowerSet \cup DIGITS

\* a job description with an upper-case letter and a punctuation mark that
\* normalizes to at least one token
MixedJobNormalized ==
  \E r \in Reqs :
    /\ Bound(r, "job_words")
    /\ Local(r, "job_words") # <<>>
    /\ {"H", "-"} \subseteq Range(request[r].job_description)
    /\ Join(<<" ">>, Local(r, "job_words")) # request[r].job_description

\* the three document errors, of the request as received
UnsupportedFormat(rq) ==
  ~IsPdfName(Lower(rq.filename)) /\ ~IsDocxName(Lower(rq.filename))

UnreadableDocument(rq) ==
  ~UnsupportedFormat(rq) /\ ~ExtractorReturns(Lower(rq.filename), rq.file_bytes)

EmptyInput(rq) ==
  /\ ExtractorReturns(Lower(rq.filename), rq.file_bytes)
  /\ Strip(IF IsPdfName(Lower(rq.filename)) THEN extract_text_from_pdf(rq.file_bytes)
           ELSE extract_text_from_docx(rq.file_bytes)) = <<>>

DocumentError(rq) == UnsupportedFormat(rq) \/ UnreadableDocument(rq) \/ EmptyInput(rq)

\* C7: an upload with a document error (unsupported extension, unreadable
\* document, blank extracted text) never runs a scoring step and ends as a
\* rejection with a reason; an upload that reaches scoring has none of the three.
DocumentErrorsRejected ==
  \A r \in Reqs :
    request[r].endpoint = UPLOAD =>
      /\ DocumentError(request[r]) =>
           /\ ~Scoring(r) /\ ~Returned(r)
           /\ DOMAIN frame[r] \cap SCORING_LOCALS = {}
           /\ Finished(r) => response[r].status = 400 /\ response[r].detail # ""
      /\ (Scoring(r) \/ Returned(r)) => ~DocumentError(request[r])

\* C8: an /ai/* handler never raises and can always take its next step; what it
\* returns is a normal response whose single field is a string, and when the
\* collaborator failed the string begins with "AI Error: ".
CollaboratorFailureInBand ==
  \A r \in Reqs :
    request[r].endpoint \in AI_ENDPOINTS =>
      /\ pc[r] # "raised"
      /\ pc[r] # "done" => ENABLED Step(r)
      /\ pc[r] = "done" =>
           LET key == ResultKey(request[r].endpoint)
           IN  /\ response[r].status = 200
               /\ DOMAIN response[r].body = {key}
               /\ response[r].body[key] # <<>>
               /\ \A i \in 1..Len(response[r].body[key]) :
                    response[r].body[key][i] \in STRING
               /\ request[r].collaborator.fails_at # "none" =>
                    response[r].body[key][1] = "AI Error: "

\* an /ai/* response after the collaborator ran out of quota during generation
QuotaFailureReturned ==
  \E r \in Reqs :
    /\ request[r].endpoint \in AI_ENDPOINTS
    /\ pc[r] = "done"
    /\ request[r].collaborator.fails_at = "generate"
    /\ request[r].collaborator.exc.class = "ResourceExhausted"

\* the conditions of analyze_writing, read off the text
FewActionVerbs(text) ==
  LET words == Split(Lower(text))
  IN  Cardinality({i \in 1..Len(words) : words[i] \in Range(ACTION_VERBS)}) < 5

NoAchievement(text) ==
  ~\E i \in 1..(Len(text) - 1) :
     text[i] \in DIGITS /\ text[i + 1] \in DIGITS \cup {"%"}

WeakPhrasePresent(text) == \E p \in Range(WEAK_PHRASES) : Contains(Lower(text), p)

WordOverRepeated(text) ==
  LET words == Split(Lower(text))
  IN  \E w \in Range(words) : Len(w) >= 4 /\ Count(words, w) > 5

TooPassive(text) ==
  LET words == Split(Lower(text))
  IN  Cardinality({i \in 1..Len(words) : words[i] \in Range(PASSIVE_VERBS)}) > 10

OverLongBullet(text) ==
  \E line \in Range(SplitOn(text, "\n")) :
    /\ Strip(line) # <<>>
    /\ Strip(line)[1] \in {"-", "U+2022", "*"}
    /\ Len(Split(line)) > 25

RECURSIVE MatchAll(_, _, _)
MatchAll(words, resume_set, acc) ==
  IF words = <<>> THEN acc
  ELSE LET points == KeywordPoints(Head(words), resume_set)
       IN  MatchAll(Tail(words), resume_set,
                    [score   |-> acc.score + points,
                     matched |-> IF points > 0 THEN Append(acc.matched, Head(words))
                                 ELSE acc.matched])

\* what upload_resume answers to the request when no other request is in flight
UploadAlone(rq) ==
  LET filename == Lower(rq.filename)
      text     == IF IsPdfName(filename) THEN extract_text_from_pdf(rq.file_bytes)
                  ELSE extract_text_from_docx(rq.file_bytes)
      sections == DetectSections(text)
      fmt      == analyze_formatting(text, rq.file_bytes, filename)
      resume   == normalize_text(text)
      job      == normalize_text(rq.job_description)
      kw       == MatchAll(IterationOrder(job, hash_seed), Range(resume),
                           [score |-> 0, matched |-> <<>>])
      wr       == analyze_writing(text)
  IN  IF rq.file_bytes.empty THEN Rejection("Empty file uploaded.")
      ELSE IF UnsupportedFormat(rq) THEN Rejection("Unsupported file type.")
      ELSE IF UnreadableDocument(rq) THEN Unhandled
      ELSE IF EmptyInput(rq) THEN Rejection("Could not extract text.")
      ELSE [status |-> 200, detail |-> "",
            body |->
              [filename           |-> rq.filename,
               char_count         |-> Len(text),
               sections_found     |-> sections,
               structure_score    |-> StructureScore(sections),
               formatting_score   |-> fmt.score,
               formatting_issues  |-> fmt.issues,
               keyword_score      |-> Min(kw.score, 50),
               matched_keywords   |-> kw.matched,
               writing_score      |-> wr.score,
               writing_issues     |-> wr.issues,
               ats_score          |-> Min(100, StructureScore(sections) + fmt.score
                                               + Min(kw.score, 50) + wr.score),
               suggestions        |-> Suggestions(sections, rq.job_description, kw.matched),
               preview            |-> SubSeq(text, 1, Min(800, Len(text))),
               job_description    |-> rq.job_description]]

\* what an /ai/* endpoint answers to the request when no other request is in flight
AiAlone(rq) ==
  LET out == gemini_generate(<<rq.endpoint>> \o rq.form, rq.collaborator)
  IN  IF out.raised THEN Unhandled
      ELSE [status |-> 200, detail |-> "",
            body |-> (ResultKey(rq.endpoint) :> out.value)]

\* C10: whatever the interleaving of the handlers in flight, the taxonomy tables
\* keep the values they were given at start-up, and each finished request has the
\* response it gets when it is the only request.
RequestsIsolated ==
  /\ module_globals = Globals
  /\ \A r \in Reqs :
       Finished(r) =>
         response[r] = IF request[r].endpoint = UPLOAD THEN UploadAlone(request[r])
                       ELSE AiAlone(request[r])

\* two different uploads, both analysed while the other was in flight
TwoUploadsReturned ==
  \E r1, r2 \in Reqs :
    /\ Returned(r1) /\ Returned(r2)
    /\ request[r1].file_bytes # request[r2].file_bytes
    /\ response[r1].body.matched_keywords # <<>>

=============================================================================
